---- MODULE Spec2Model ----
(***************************************************************************)
(* The Injection Molding Optimization Suite: eight Streamlit pages, each   *)
(* of which reads widget values, and on a press of its Optimize button     *)
(* builds one Pyomo model, calls the HiGHS solver once and renders either  *)
(* a result report or a failure message.                                   *)
(*                                                                         *)
(* Quantities are exact scaled integers: a time is in seconds (the         *)
(* source's hours times 3600), a cost in tenths of a dollar, a density in  *)
(* hundredths of g/cm3, a blend fraction in FractionSteps-ths.  Every      *)
(* constraint is the source's inequality multiplied through by the scale.  *)
(*                                                                         *)
(* The solver is outside the repository.  It is modelled by its contract:  *)
(* it reports "infeasible" when no point satisfies the declared domains    *)
(* and constraints, "unbounded" when the feasible set has an improving     *)
(* ray, otherwise "optimal" together with any one optimal point, and it    *)
(* may always give up with another termination condition ("other").        *)
(***************************************************************************)
EXTENDS Integers, FiniteSets, Sequences, TLC

VARIABLES
  page,      \* the page the browser shows
  inputs,    \* the values of the page's widgets (or its built-in data)
  pc,        \* where the button handler is: idle, built, solved, done
  model,     \* the Pyomo model of the current run
  status,    \* results.solver.termination_condition of the current run
  solution,  \* the variable values the solver loaded into the model
  screen,    \* what the handler rendered
  nbuild,    \* models built in the current run
  nsolve,    \* solver calls made in the current run
  nrender,   \* outcomes rendered in the current run
  prev       \* the outcome of the run this one replaced (history)

vars == <<page, inputs, pc, model, status, solution, screen,
          nbuild, nsolve, nrender, prev>>

\* ------------------------------------------------------------------ bounds

\* Calls counted within one run (the counters saturate here).
MaxCalls == 3
\* The blend-fraction grid has 10 * MB_Refine steps between 0 and 1.
MB_Refine == 1

\* ----------------------------------------------------------------- helpers

NoModel == [scenario |-> "none"]
NoValues == [kind |-> "none"]
Blank == [kind |-> "blank"]


RECURSIVE SumOver(_, _)
\* The sum of f[e] over the elements e of the finite set S.
SumOver(S, f) ==
  IF S = {} THEN 0
  ELSE LET e == CHOOSE e \in S : TRUE
       IN f[e] + SumOver(S \ {e}, f)

\* The least and the greatest element of a non-empty finite set of integers.
Least(S) == CHOOSE a \in S : \A b \in S : a <= b
Greatest(S) == CHOOSE a \in S : \A b \in S : a >= b

\* ------------------------------------------------------- material blending

FractionSteps == 10 * MB_Refine

\* material_blending_app.py: the built-in materials (cost in tenths of $/kg,
\* strength in MPa, density in hundredths of g/cm3).
MBA_materials ==
  [Virgin   |-> [cost |-> 25, strength |-> 35, density |-> 105],
   Regrind  |-> [cost |-> 10, strength |-> 25, density |-> 95],
   Additive |-> [cost |-> 50, strength |-> 50, density |-> 120]]

\* 3_Material_Blending.py: the widgets' default materials.
MB_default_materials ==
  [PP_Virgin           |-> [cost |-> 25, strength |-> 35, density |-> 105],
   PP_Regrind          |-> [cost |-> 12, strength |-> 25, density |-> 95],
   GlassFiber_Additive |-> [cost |-> 50, strength |-> 50, density |-> 120]]

\* The quality bounds the two number inputs take in this model (the widgets
\* admit 0.0..100.0 MPa and 0.0..2.0 g/cm3; 30.0 and 1.1 are the defaults).
MinStrengthChoices == {0, 30, 35, 60}
MaxDensityChoices == {90, 100, 110, 200}

MBA_Defaults ==
  [materials |-> MBA_materials, min_strength |-> 30, max_density |-> 110]

MBA_Inputs ==
  {[materials |-> MBA_materials, min_strength |-> s, max_density |-> d] :
     s \in MinStrengthChoices, d \in MaxDensityChoices}

\* The Python types of the numbers in default_materials: the costs and
\* densities are written as floats, the strengths (35, 25, 50) as ints.
MB_default_types ==
  [PP_Virgin           |-> [cost |-> "float", strength |-> "int", density |-> "float"],
   PP_Regrind          |-> [cost |-> "float", strength |-> "int", density |-> "float"],
   GlassFiber_Additive |-> [cost |-> "float", strength |-> "int", density |-> "float"]]

\* st.number_input takes its min_value, max_value, value and step only when
\* those given are all ints or all floats; otherwise it raises
\* StreamlitMixedNumericTypesError.
NumberInputAccepts(types) == types \subseteq {"int"} \/ types \subseteq {"float"}

\* The three number inputs of each material pass a float min_value and a
\* float step with the material's default as value: the script gets through
\* its widgets only if every one of these calls is accepted.
MB_WidgetsLoad ==
  \A mat \in DOMAIN MB_default_types : \A prop \in DOMAIN MB_default_types[mat] :
    NumberInputAccepts({"float", MB_default_types[mat][prop]})

\* The one widget the script shows before the strength input of PP_Virgin
\* raises: the cost of PP_Virgin, at its default.
MB_Defaults == [cost |-> MB_default_materials.PP_Virgin.cost]

\* That cost, at its default or edited to 3.0 $/kg.
MB_Inputs == {[cost |-> c] : c \in {MB_default_materials.PP_Virgin.cost, 30}}

\* model.x = Var(materials.keys(), bounds=(0, 1)), in FractionSteps-ths.
MB_Points(P) == [DOMAIN P.materials -> 0..FractionSteps]

MB_cost_maximized(P, x) ==
  0 - SumOver(DOMAIN P.materials, [m \in DOMAIN P.materials |-> x[m] * P.materials[m].cost])

\* model.cost: sum(model.x[m] * materials[m]["cost"]), sense=minimize.
MB_cost(P, x) ==
  SumOver(DOMAIN P.materials, [m \in DOMAIN P.materials |-> x[m] * P.materials[m].cost])

MB_blend_strength(P, x) ==
  SumOver(DOMAIN P.materials, [m \in DOMAIN P.materials |-> x[m] * P.materials[m].strength])

MB_blend_density(P, x) ==
  SumOver(DOMAIN P.materials, [m \in DOMAIN P.materials |-> x[m] * P.materials[m].density])

\* model.mix: sum(model.x[m]) == 1.
MB_mix(P, x) ==
  SumOver(DOMAIN P.materials, x) = FractionSteps

MB_strength_le(P, x) ==
  MB_blend_strength(P, x) <= P.min_strength * FractionSteps

\* model.strength: sum(model.x[m] * strength[m]) >= min_strength.
MB_strength(P, x) ==
  MB_blend_strength(P, x) >= P.min_strength * FractionSteps

\* model.density: sum(model.x[m] * density[m]) <= max_density.
MB_density(P, x) ==
  MB_blend_density(P, x) <= P.max_density * FractionSteps

MB_Feasible(P, x) == MB_mix(P, x) /\ MB_strength(P, x) /\ MB_density(P, x)

\* ----------------------------------------------------- production scheduling

SecondsPerHour == 3600
MinutesPerHour == 60
SecondsPerMinute == SecondsPerHour \div MinutesPerHour
\* 1_Production_Scheduling.py: penalty = sum(model.slack[j] * 10).
SlackPenalty == 10
\* production_scheduling_app.py: changeover_cost = sum(...) * 5.
ChangeoverWeight == 5

\* The jobs and machines the two multiselects offer that this model lets the
\* user select (the page offers four jobs and three machines).
PS_JobSelections == {{"Syringe"}, {"Syringe", "Gloves"}}
PS_MachineSelections ==
  {{"Arburg_Allrounder_320C"}, {"Arburg_Allrounder_320C", "Engel_Victory_200"}}

\* The widgets' defaults: two jobs, two machines, demand 1000, cycle time 30 s,
\* changeover 30 min, 200 available hours.
PS_Defaults ==
  LET J == {"Syringe", "Gloves"}
      M == {"Arburg_Allrounder_320C", "Engel_Victory_200"}
  IN [jobs |-> J, machines |-> M,
      demand |-> [j \in J |-> 1000],
      cycle_time |-> [jm \in J \X M |-> 30],
      changeover_time |-> 30,
      available_hours |-> [m \in M |-> 200]]

\* Edited inputs: demands of 0, 100 or 200 units, a cycle time of 36 s (100
\* units an hour), a changeover of 60 min, 2 or 3 available hours a machine.
PS_Inputs ==
  {PS_Defaults} \cup
  UNION {UNION {
    {[jobs |-> J, machines |-> M, demand |-> d,
      cycle_time |-> [jm \in J \X M |-> 36],
      changeover_time |-> 60,
      available_hours |-> a] :
        d \in [J -> {0, 100, 200}], a \in [M -> {2, 3}]} :
    M \in PS_MachineSelections} : J \in PS_JobSelections}

\* The quantities the solver's answer is drawn from: none, half or all of the
\* largest demand.
PS_Levels(P) ==
  LET top == Greatest({P.demand[j] : j \in P.jobs})
  IN {0, top \div 2, top}

\* model.production, model.assignment, model.slack.
PS_Points(P) ==
  [production : [P.jobs \X P.machines -> PS_Levels(P)],
   assignment : [P.jobs \X P.machines -> {0, 1}],
   slack      : [P.jobs -> PS_Levels(P)]]

PS_objective_rule_maximized(P, x) ==
  0 - SumOver(P.jobs \X P.machines,
        [jm \in P.jobs \X P.machines |-> x.production[jm] * P.cycle_time[jm]])
    - SumOver(P.jobs, [j \in P.jobs |-> x.slack[j] * SlackPenalty * SecondsPerHour])

\* objective_rule, in seconds: prod_time + setup_time + penalty.
PS_objective_rule(P, x) ==
  LET prod_time == SumOver(P.jobs \X P.machines,
         [jm \in P.jobs \X P.machines |-> x.production[jm] * P.cycle_time[jm]])
      setup_time == SumOver(P.jobs \X P.machines,
         [jm \in P.jobs \X P.machines |->
            x.assignment[jm] * P.changeover_time * SecondsPerMinute])
      penalty == SumOver(P.jobs,
         [j \in P.jobs |-> x.slack[j] * SlackPenalty * SecondsPerHour])
  IN prod_time + setup_time + penalty

PS_demand_rule_le(P, x, j) ==
  SumOver(P.machines, [m \in P.machines |-> x.production[<<j, m>>]]) + x.slack[j]
    <= P.demand[j]

\* demand_rule(model, j).
PS_demand_rule(P, x, j) ==
  SumOver(P.machines, [m \in P.machines |-> x.production[<<j, m>>]]) + x.slack[j]
    >= P.demand[j]

\* capacity_rule(model, m), in seconds.
PS_capacity_rule(P, x, m) ==
  LET prod_time == SumOver(P.jobs,
         [j \in P.jobs |-> x.production[<<j, m>>] * P.cycle_time[<<j, m>>]])
      setup_time == SumOver(P.jobs, [j \in P.jobs |-> x.assignment[<<j, m>>]])
                      * P.changeover_time * SecondsPerMinute
  IN prod_time + setup_time <= P.available_hours[m] * SecondsPerHour

PS_assignment_link_rule_unlinked(P, x, j, m) ==
  x.production[<<j, m>>] <= P.demand[j]

\* assignment_link_rule(model, j, m).
PS_assignment_link_rule(P, x, j, m) ==
  x.production[<<j, m>>] <= P.demand[j] * x.assignment[<<j, m>>]

PS_Feasible(P, x) ==
  /\ \A j \in P.jobs : \A m \in P.machines : PS_assignment_link_rule(P, x, j, m)
  /\ \A j \in P.jobs : PS_demand_rule(P, x, j)
  /\ \A m \in P.machines : PS_capacity_rule(P, x, m)

\* production_scheduling_app.py: the built-in data.
PSA_Defaults ==
  [jobs |-> {"JobA", "JobB", "JobC", "JobD"},
   machines |-> {"IMM_1", "IMM_2", "IMM_3"},
   demand |-> [JobA |-> 5000, JobB |-> 3000, JobC |-> 4000, JobD |-> 2000],
   cycle_time |->
     (<<"JobA", "IMM_1">> :> 25 @@ <<"JobA", "IMM_2">> :> 28 @@ <<"JobA", "IMM_3">> :> 30 @@
      <<"JobB", "IMM_1">> :> 35 @@ <<"JobB", "IMM_2">> :> 32 @@ <<"JobB", "IMM_3">> :> 38 @@
      <<"JobC", "IMM_1">> :> 20 @@ <<"JobC", "IMM_2">> :> 22 @@ <<"JobC", "IMM_3">> :> 21 @@
      <<"JobD", "IMM_1">> :> 40 @@ <<"JobD", "IMM_2">> :> 38 @@ <<"JobD", "IMM_3">> :> 42),
   changeover_time |-> 60,
   available_hours |-> [IMM_1 |-> 20, IMM_2 |-> 22, IMM_3 |-> 16]]

\* objective_rule, in seconds: prod_cost + changeover_cost.
PSA_objective_rule(P, x) ==
  LET prod_cost == SumOver(P.jobs \X P.machines,
         [jm \in P.jobs \X P.machines |-> x.production[jm] * P.cycle_time[jm]])
      changeover_cost == SumOver(P.jobs \X P.machines,
         [jm \in P.jobs \X P.machines |->
            x.assignment[jm] * P.changeover_time * SecondsPerMinute]) * ChangeoverWeight
  IN prod_cost + changeover_cost

\* demand_rule(model, j): this page declares no slack variable.
PSA_demand_rule(P, x, j) ==
  SumOver(P.machines, [m \in P.machines |-> x.production[<<j, m>>]]) >= P.demand[j]

\* capacity_rule(model, m), in seconds.
PSA_capacity_rule(P, x, m) ==
  LET prod_time == SumOver(P.jobs,
         [j \in P.jobs |-> x.production[<<j, m>>] * P.cycle_time[<<j, m>>]])
      setup_time == SumOver(P.jobs, [j \in P.jobs |-> x.assignment[<<j, m>>]])
                      * P.changeover_time * SecondsPerMinute
  IN prod_time + setup_time <= P.available_hours[m] * SecondsPerHour

\* assignment_link_rule(model, j, m).
PSA_assignment_link_rule(P, x, j, m) ==
  x.production[<<j, m>>] <= P.demand[j] * x.assignment[<<j, m>>]

PSA_Feasible(P, x) ==
  /\ \A j \in P.jobs : \A m \in P.machines : PSA_assignment_link_rule(P, x, j, m)
  /\ \A j \in P.jobs : PSA_demand_rule(P, x, j)
  /\ \A m \in P.machines : PSA_capacity_rule(P, x, m)

\* Adding the capacity rules of all machines and using each demand rule: the
\* work of every job on its fastest machine, and one changeover for every job
\* with a positive demand, must fit into the machines' hours together.  When
\* it does not, no point satisfies the constraints.
PSA_Overloaded(P) ==
  LET work == SumOver(P.jobs,
         [j \in P.jobs |-> P.demand[j] * Least({P.cycle_time[<<j, m>>] : m \in P.machines})])
      setups == Cardinality({j \in P.jobs : P.demand[j] > 0})
                  * P.changeover_time * SecondsPerMinute
      hours == SumOver(P.machines, [m \in P.machines |-> P.available_hours[m]])
  IN work + setups > hours * SecondsPerHour

\* The plans searched when the load fits: every job made whole on one machine.
PSA_Points(P) ==
  {[production |-> [jm \in P.jobs \X P.machines |->
                      IF on[jm[1]] = jm[2] THEN P.demand[jm[1]] ELSE 0],
    assignment |-> [jm \in P.jobs \X P.machines |->
                      IF on[jm[1]] = jm[2] /\ P.demand[jm[1]] > 0 THEN 1 ELSE 0]] :
     on \in [P.jobs -> P.machines]}

\* --------------------------------------------------------- capacity planning

\* Money is in cents and labor in hundredths of an hour.  A plan x is indexed
\* by month first: x[t].production[<<p, m>>] is model.production[p, m, t].

\* months = [1, 2, 3].
months == {1, 2, 3}
\* 4_Capacity_Planning.py: labor_cost = production * labor_hours * 25.
LaborRate == 25

\* An empty product of choices, and the plans that take one choice per index:
\* every f with f[i] \in Opt[i] for each i of the finite set I of integers.
RECURSIVE ProductOf(_, _)
ProductOf(I, Opt) ==
  IF I = {} THEN {<<>>}
  ELSE LET i == Greatest(I)
       IN {g @@ (i :> z) : g \in ProductOf(I \ {i}, Opt), z \in Opt[i]}

\* The widgets' default product: price 5.0, material cost 2.0, 0.05 labor
\* hours, a demand of 2000 a month, a cycle time of 30 s on every machine.
CP_product(M, ct) ==
  [selling_price |-> 500, material_cost |-> 200, labor_hours |-> 5,
   max_demand_per_month |-> 2000, cycle_time |-> [m \in M |-> ct[m]]]

CP_AllMachines == {"Arburg_Allrounder_320C", "Engel_Victory_200"}

CP_Defaults ==
  LET Pr == {"Syringe", "IV_Set"}
      M == CP_AllMachines
  IN [products |-> Pr, machines |-> M,
      product_data |-> [p \in Pr |-> CP_product(M, [m \in M |-> 30])],
      machine_capacity |-> [m \in M |-> 200],
      labor_hours_available |-> 500]

\* Edited inputs, one product selected.  With ample machine hours (200) the
\* cycle times are the defaults or 30 s and 28 s; with scarce machine hours
\* (10 or 20) the cycle time is 36 s (100 units an hour).  Labor is the
\* default 500 hours or the minimum 50.
CP_Inputs ==
  {CP_Defaults} \cup
  UNION {
    {[products |-> {"Syringe"}, machines |-> M,
      product_data |-> [p \in {"Syringe"} |-> CP_product(M, ct)],
      machine_capacity |-> [m \in M |-> 200],
      labor_hours_available |-> l] :
        ct \in {[m \in CP_AllMachines |-> 30],
                [m \in CP_AllMachines |->
                   IF m = "Arburg_Allrounder_320C" THEN 30 ELSE 28]},
        l \in {50, 500}}
    \cup
    {[products |-> {"Syringe"}, machines |-> M,
      product_data |-> [p \in {"Syringe"} |-> CP_product(M, [m \in CP_AllMachines |-> 36])],
      machine_capacity |-> [m \in M |-> c],
      labor_hours_available |-> l] :
        c \in {10, 20}, l \in {50, 500}} :
    M \in {{"Arburg_Allrounder_320C"}, CP_AllMachines}}

\* The quantities the solver's answer is drawn from: none, half or all of the
\* largest monthly demand.
CP_Levels(P) ==
  LET top == Greatest({P.product_data[p].max_demand_per_month : p \in P.products})
  IN {0, top \div 2, top}

\* One month of model.production, model.sales, model.slack.
CP_MonthPoints(P) ==
  [production : [P.products \X P.machines -> CP_Levels(P)],
   sales      : [P.products -> CP_Levels(P)],
   slack      : [P.products -> CP_Levels(P)]]

\* objective_rule, in cents: revenue - material_cost - labor_cost - slack_penalty.
CP_objective_rule(P, x) ==
  LET PT == P.products \X months
      PMT == (P.products \X P.machines) \X months
      revenue == SumOver(PT,
         [pt \in PT |-> x[pt[2]].sales[pt[1]] * P.product_data[pt[1]].selling_price])
      material_cost == SumOver(PMT,
         [k \in PMT |-> x[k[2]].production[k[1]] * P.product_data[k[1][1]].material_cost])
      labor_cost == SumOver(PMT,
         [k \in PMT |-> x[k[2]].production[k[1]]
                          * P.product_data[k[1][1]].labor_hours * LaborRate])
      slack_penalty == SumOver(PT,
         [pt \in PT |-> x[pt[2]].slack[pt[1]] * P.product_data[pt[1]].selling_price])
  IN revenue - material_cost - labor_cost - slack_penalty

\* The machine time used in month t on machine m, in seconds (the page's
\* utilization table computes the same sum).
CP_time_used(P, x, m, t) ==
  SumOver(P.products,
    [p \in P.products |-> x[t].production[<<p, m>>] * P.product_data[p].cycle_time[m]])

CP_capacity_rule_minutes(P, x, m, t) ==
  CP_time_used(P, x, m, t) <= P.machine_capacity[m] * MinutesPerHour

\* capacity_rule(model, m, t), in seconds.
CP_capacity_rule(P, x, m, t) ==
  CP_time_used(P, x, m, t) <= P.machine_capacity[m] * SecondsPerHour

\* labor_rule(model, t), in hundredths of an hour.
CP_labor_rule(P, x, t) ==
  SumOver(P.products \X P.machines,
    [pm \in P.products \X P.machines |->
       x[t].production[pm] * P.product_data[pm[1]].labor_hours])
    <= P.labor_hours_available * 100

\* demand_rule(model, p, t).
CP_demand_rule(P, x, p, t) ==
  x[t].sales[p] + x[t].slack[p] <= P.product_data[p].max_demand_per_month

\* sales_rule(model, p, t).
CP_sales_rule(P, x, p, t) ==
  x[t].sales[p] <= SumOver(P.machines, [m \in P.machines |-> x[t].production[<<p, m>>]])

\* The constraints of month t.
CP_FeasibleMonth(P, x, t) ==
  /\ \A p \in P.products : CP_demand_rule(P, x, p, t)
  /\ \A p \in P.products : CP_sales_rule(P, x, p, t)
  /\ \A m \in P.machines : CP_capacity_rule(P, x, m, t)
  /\ CP_labor_rule(P, x, t)

CP_Feasible(P, x) == \A t \in months : CP_FeasibleMonth(P, x, t)

\* capacity_planning_app.py: the built-in data.
CPA_Defaults ==
  [products |-> {"PartX", "PartY"},
   machines |-> {"IMM_100T", "IMM_200T"},
   selling_price |-> [PartX |-> 500, PartY |-> 800],
   material_cost |-> [PartX |-> 200, PartY |-> 300],
   cycle_time |-> (<<"PartX", "IMM_100T">> :> 30 @@ <<"PartX", "IMM_200T">> :> 28 @@
                   <<"PartY", "IMM_100T">> :> 0  @@ <<"PartY", "IMM_200T">> :> 40),
   machine_capacity |-> [IMM_100T |-> 200, IMM_200T |-> 150]]

CPA_Levels == {0, 1000}

\* One month of model.production and model.sales: this page declares no slack.
CPA_MonthPoints(P) ==
  [production : [P.products \X P.machines -> CPA_Levels],
   sales      : [P.products -> CPA_Levels]]

CPA_objective_rule_cost_only(P, x) ==
  0 - SumOver((P.products \X P.machines) \X months,
        [k \in (P.products \X P.machines) \X months |->
           x[k[2]].production[k[1]] * P.material_cost[k[1][1]]])

\* objective_rule, in cents: revenue - cost.
CPA_objective_rule(P, x) ==
  LET PT == P.products \X months
      PMT == (P.products \X P.machines) \X months
      revenue == SumOver(PT, [pt \in PT |-> x[pt[2]].sales[pt[1]] * P.selling_price[pt[1]]])
      cost == SumOver(PMT, [k \in PMT |-> x[k[2]].production[k[1]] * P.material_cost[k[1][1]]])
  IN revenue - cost

\* capacity_rule(model, m, t), in seconds.
CPA_capacity_rule(P, x, m, t) ==
  SumOver(P.products,
    [p \in P.products |-> x[t].production[<<p, m>>] * P.cycle_time[<<p, m>>]])
    <= P.machine_capacity[m] * SecondsPerHour

CPA_FeasibleMonth(P, x, t) ==
  \A m \in P.machines : CPA_capacity_rule(P, x, m, t)

CPA_Feasible(P, x) == \A t \in months : CPA_FeasibleMonth(P, x, t)

\* ---------------------------------------------------- maintenance scheduling

\* A schedule x is indexed by week first: x[w].pm_minor[m] is
\* model.pm_minor[m, w].  Costs are multiplied by num_weeks, so that the
\* failure-risk weight w / num_weeks is the integer w.

MS_AllMachines == {"Arburg_Allrounder_320C", "Engel_Victory_200"}

\* weeks = list(range(1, num_weeks + 1)).
MS_weeks(P) == 1..P.num_weeks

\* The widgets' defaults: two machines, 8 weeks, costs 500 and 2000, downtime
\* 300 an hour, failure penalty 3000, durations 2 h and 8 h, 40 labor hours.
MS_Defaults ==
  [machines |-> MS_AllMachines, num_weeks |-> 8,
   pm_minor_cost |-> 500, pm_major_cost |-> 2000,
   downtime_cost_per_hour |-> 300, failure_penalty |-> 3000,
   task_duration |-> [PM_Minor |-> 2, PM_Major |-> 8],
   labor_available |-> [w \in 1..8 |-> 40]]

\* Edited inputs: one or two machines, 4 (the minimum) or 8 weeks, a failure
\* penalty of 500 (the minimum), 3000 or 6000, and 1 (the minimum), 9 or 40
\* labor hours in every week.
MS_Inputs ==
  {[machines |-> M, num_weeks |-> n,
    pm_minor_cost |-> 500, pm_major_cost |-> 2000,
    downtime_cost_per_hour |-> 300, failure_penalty |-> f,
    task_duration |-> [PM_Minor |-> 2, PM_Major |-> 8],
    labor_available |-> [w \in 1..n |-> l]] :
      M \in {{"Arburg_Allrounder_320C"}, MS_AllMachines},
      n \in {4, 8}, f \in {500, 3000, 6000}, l \in {1, 9, 40}}

\* One week of model.pm_minor and model.pm_major.
MS_WeekPoints(P) ==
  [pm_minor : [P.machines -> {0, 1}], pm_major : [P.machines -> {0, 1}]]

MS_failure_term_clamped(P, x, m, w) ==
  IF x[w].pm_minor[m] + x[w].pm_major[m] >= 1 THEN 0 ELSE P.failure_penalty * w

\* The term added to failure_cost for machine m and week w, times num_weeks:
\* (1 - pm_minor[m,w] - pm_major[m,w]) * (failure_penalty * (w/num_weeks)).
MS_failure_term(P, x, m, w) ==
  (1 - x[w].pm_minor[m] - x[w].pm_major[m]) * (P.failure_penalty * w)

\* objective_rule, times num_weeks: pm_cost + downtime + failure_cost.
MS_objective_rule(P, x) ==
  LET MW == P.machines \X MS_weeks(P)
      pm_cost == SumOver(MW,
         [mw \in MW |-> x[mw[2]].pm_minor[mw[1]] * P.pm_minor_cost
                        + x[mw[2]].pm_major[mw[1]] * P.pm_major_cost])
      downtime == SumOver(MW,
         [mw \in MW |-> (x[mw[2]].pm_minor[mw[1]] * P.task_duration.PM_Minor
                         + x[mw[2]].pm_major[mw[1]] * P.task_duration.PM_Major)
                        * P.downtime_cost_per_hour])
      failure_cost == SumOver(MW, [mw \in MW |-> MS_failure_term(P, x, mw[1], mw[2])])
  IN (pm_cost + downtime) * P.num_weeks + failure_cost

\* labor_rule(model, w).
MS_labor_rule(P, x, w) ==
  SumOver(P.machines,
    [m \in P.machines |-> x[w].pm_minor[m] * P.task_duration.PM_Minor
                          + x[w].pm_major[m] * P.task_duration.PM_Major])
    <= P.labor_available[w]

MS_Feasible(P, x) == \A w \in MS_weeks(P) : MS_labor_rule(P, x, w)

\* maintenance_scheduling_app.py: the built-in data.
MSA_Defaults ==
  [machines |-> {"IMM_1", "IMM_2", "IMM_3"}, num_weeks |-> 8,
   pm_minor_cost |-> 500, pm_major_cost |-> 2000,
   downtime_cost_per_hour |-> 300,
   task_duration |-> [PM_Minor |-> 2, PM_Major |-> 8],
   labor_available |-> [w \in 1..8 |-> 40]]

MSA_objective_rule_negated(P, x) ==
  0 - SumOver(P.machines \X MS_weeks(P),
        [mw \in P.machines \X MS_weeks(P) |->
           x[mw[2]].pm_minor[mw[1]] * P.pm_minor_cost
           + x[mw[2]].pm_major[mw[1]] * P.pm_major_cost])

\* objective_rule: pm_cost + downtime; this page has no failure-risk term.
MSA_objective_rule(P, x) ==
  LET MW == P.machines \X MS_weeks(P)
      pm_cost == SumOver(MW,
         [mw \in MW |-> x[mw[2]].pm_minor[mw[1]] * P.pm_minor_cost
                        + x[mw[2]].pm_major[mw[1]] * P.pm_major_cost])
      downtime == SumOver(MW,
         [mw \in MW |-> (x[mw[2]].pm_minor[mw[1]] * P.task_duration.PM_Minor
                         + x[mw[2]].pm_major[mw[1]] * P.task_duration.PM_Major)
                        * P.downtime_cost_per_hour])
  IN pm_cost + downtime

\* labor_rule(model, w).
MSA_labor_rule(P, x, w) ==
  SumOver(P.machines,
    [m \in P.machines |-> x[w].pm_minor[m] * P.task_duration.PM_Minor
                          + x[w].pm_major[m] * P.task_duration.PM_Major])
    <= P.labor_available[w]

MSA_Feasible(P, x) == \A w \in MS_weeks(P) : MSA_labor_rule(P, x, w)

\* ------------------------------------------------------------------ solver

\* What solver.solve(model) may return: a termination condition and, when it
\* is optimal, the values loaded into the model's variables.
Outcomes(feasible, ray, opt) ==
  {[status |-> "other", values |-> NoValues]} \cup
  (IF ~feasible THEN {[status |-> "infeasible", values |-> NoValues]}
   ELSE IF ray THEN {[status |-> "unbounded", values |-> NoValues]}
   ELSE {[status |-> "optimal", values |-> x] : x \in opt})

MB_Solve(P) ==
  LET F == {x \in MB_Points(P) : MB_Feasible(P, x)}
      best == Least({MB_cost(P, x) : x \in F})
  IN Outcomes(F # {}, FALSE, {x \in F : MB_cost(P, x) = best})

\* A direction along which production and slack may grow for ever: the
\* constraints with their constant terms removed still hold along it (the
\* binary assignment cannot grow).
PS_Rays(P) ==
  LET P0 == [P EXCEPT !.demand = [j \in P.jobs |-> 0],
                      !.available_hours = [m \in P.machines |-> 0]]
      D == [production : [P.jobs \X P.machines -> {0, 1}],
            assignment : {[jm \in P.jobs \X P.machines |-> 0]},
            slack      : [P.jobs -> {0, 1}]]
  IN {d \in D : PS_Feasible(P0, d)}

PS_Solve(P) ==
  LET F == {x \in PS_Points(P) : PS_Feasible(P, x)}
      best == Least({PS_objective_rule(P, x) : x \in F})
  IN Outcomes(F # {},
              \E d \in PS_Rays(P) : PS_objective_rule(P, d) < 0,
              {x \in F : PS_objective_rule(P, x) = best})

PSA_Rays(P) ==
  LET P0 == [P EXCEPT !.demand = [j \in P.jobs |-> 0],
                      !.available_hours = [m \in P.machines |-> 0]]
      D == [production : [P.jobs \X P.machines -> {0, 1}],
            assignment : {[jm \in P.jobs \X P.machines |-> 0]}]
  IN {d \in D : PSA_Feasible(P0, d)}

PSA_Solve(P) ==
  LET F == IF PSA_Overloaded(P) THEN {}
           ELSE {x \in PSA_Points(P) : PSA_Feasible(P, x)}
      best == Least({PSA_objective_rule(P, x) : x \in F})
  IN Outcomes(F # {},
              \E d \in PSA_Rays(P) : PSA_objective_rule(P, d) < 0,
              {x \in F : PSA_objective_rule(P, x) = best})

\* The capacity-planning constraints each concern one month and the objective
\* is a sum over the months, so a plan is optimal exactly when each of its
\* months is: the month y placed into the empty plan is compared with the
\* other months of the same kind.
CP_Zero(P) ==
  [t \in months |->
     [production |-> [pm \in P.products \X P.machines |-> 0],
      sales |-> [p \in P.products |-> 0],
      slack |-> [p \in P.products |-> 0]]]

CP_Rays(P) ==
  LET P0 == [P EXCEPT
               !.machine_capacity = [m \in P.machines |-> 0],
               !.labor_hours_available = 0,
               !.product_data = [p \in P.products |->
                                   [P.product_data[p] EXCEPT !.max_demand_per_month = 0]]]
      D == [production : [P.products \X P.machines -> {0, 1}],
            sales      : [P.products -> {0, 1}],
            slack      : [P.products -> {0, 1}]]
  IN {[CP_Zero(P) EXCEPT ![1] = d] : d \in {d \in D : CP_FeasibleMonth(P0, [CP_Zero(P) EXCEPT ![1] = d], 1)}}

CP_OptimalMonth(P, t) ==
  LET F == {y \in CP_MonthPoints(P) : CP_FeasibleMonth(P, [CP_Zero(P) EXCEPT ![t] = y], t)}
      val == [y \in F |-> CP_objective_rule(P, [CP_Zero(P) EXCEPT ![t] = y])]
      best == Greatest({val[y] : y \in F})
  IN {y \in F : val[y] = best}

CP_Solve(P) ==
  LET opt == [t \in months |-> CP_OptimalMonth(P, t)]
  IN Outcomes(\A t \in months : opt[t] # {},
              \E d \in CP_Rays(P) : CP_objective_rule(P, d) > 0,
              ProductOf(months, opt))

CPA_Zero(P) ==
  [t \in months |->
     [production |-> [pm \in P.products \X P.machines |-> 0],
      sales |-> [p \in P.products |-> 0]]]

CPA_Rays(P) ==
  LET P0 == [P EXCEPT !.machine_capacity = [m \in P.machines |-> 0]]
      D == [production : [P.products \X P.machines -> {0, 1}],
            sales      : [P.products -> {0, 1}]]
  IN {[CPA_Zero(P) EXCEPT ![1] = d] : d \in {d \in D : CPA_FeasibleMonth(P0, [CPA_Zero(P) EXCEPT ![1] = d], 1)}}

CPA_OptimalMonth(P, t) ==
  LET F == {y \in CPA_MonthPoints(P) : CPA_FeasibleMonth(P, [CPA_Zero(P) EXCEPT ![t] = y], t)}
      val == [y \in F |-> CPA_objective_rule(P, [CPA_Zero(P) EXCEPT ![t] = y])]
      best == Greatest({val[y] : y \in F})
  IN {y \in F : val[y] = best}

CPA_Solve(P) ==
  LET opt == [t \in months |-> CPA_OptimalMonth(P, t)]
  IN Outcomes(\A t \in months : opt[t] # {},
              \E d \in CPA_Rays(P) : CPA_objective_rule(P, d) > 0,
              ProductOf(months, opt))

\* The maintenance constraints each concern one week and the objective is a
\* sum over the weeks, so a schedule is optimal exactly when each week is.
MS_Zero(P) ==
  [w \in MS_weeks(P) |->
     [pm_minor |-> [m \in P.machines |-> 0], pm_major |-> [m \in P.machines |-> 0]]]

MS_OptimalWeek(P, w) ==
  LET F == {z \in MS_WeekPoints(P) : MS_labor_rule(P, [MS_Zero(P) EXCEPT ![w] = z], w)}
      val == [z \in F |-> MS_objective_rule(P, [MS_Zero(P) EXCEPT ![w] = z])]
      best == Least({val[z] : z \in F})
  IN {z \in F : val[z] = best}

MS_Solve(P) ==
  LET opt == [w \in MS_weeks(P) |-> MS_OptimalWeek(P, w)]
  IN Outcomes(\A w \in MS_weeks(P) : opt[w] # {}, FALSE, ProductOf(MS_weeks(P), opt))

MSA_OptimalWeek(P, w) ==
  LET F == {z \in MS_WeekPoints(P) : MSA_labor_rule(P, [MS_Zero(P) EXCEPT ![w] = z], w)}
      val == [z \in F |-> MSA_objective_rule(P, [MS_Zero(P) EXCEPT ![w] = z])]
      best == Least({val[z] : z \in F})
  IN {z \in F : val[z] = best}

MSA_Solve(P) ==
  LET opt == [w \in MS_weeks(P) |-> MSA_OptimalWeek(P, w)]
  IN Outcomes(\A w \in MS_weeks(P) : opt[w] # {}, FALSE, ProductOf(MS_weeks(P), opt))

\* ------------------------------------------------------------------- pages

Home == "Home"
PS  == "1_Production_Scheduling"
PSA == "production_scheduling_app"
MS  == "2_Maintenance_Scheduling"
MSA == "maintenance_scheduling_app"
MB  == "3_Material_Blending"
MBA == "material_blending_app"
CP  == "4_Capacity_Planning"
CPA == "capacity_planning_app"

ScenarioPages == {PS, PSA, MS, MSA, MB, MBA, CP, CPA}

\* Whether the script of a page runs through its widgets down to its button.
\* Every other number input of the repository is given ints only or floats
\* only.
PageLoads(pg) == pg # MB \/ MB_WidgetsLoad

\* What Streamlit shows when the script raises: the exception, in place of
\* the rest of the page.
ExceptionScreen == [kind |-> "exception", message |-> "StreamlitMixedNumericTypesError"]

NoInputs == [none |-> TRUE]

\* The widget values a page shows when it is opened.
Defaults(pg) ==
  CASE pg = PS  -> PS_Defaults
    [] pg = PSA -> PSA_Defaults
    [] pg = MS  -> MS_Defaults
    [] pg = MSA -> MSA_Defaults
    [] pg = MB  -> MB_Defaults
    [] pg = MBA -> MBA_Defaults
    [] pg = CP  -> CP_Defaults
    [] pg = CPA -> CPA_Defaults
    [] OTHER    -> NoInputs

\* The widget values the user can set on a page; a page with built-in data
\* only has none to set.
Inputs(pg) ==
  CASE pg = PS  -> PS_Inputs
    [] pg = MS  -> MS_Inputs
    [] pg = MB  -> MB_Inputs
    [] pg = MBA -> MBA_Inputs
    [] pg = CP  -> CP_Inputs
    [] OTHER    -> {Defaults(pg)}

\* model = ConcreteModel() and the declarations that follow it: the page's
\* formulation over the values its widgets hold at the press of the button.
Build(pg, values) == [scenario |-> pg, P |-> values]

\* solver = SolverFactory("highs"); results = solver.solve(model, tee=False).
SolverOutcomes(m) ==
  CASE m.scenario = PS  -> PS_Solve(m.P)
    [] m.scenario = PSA -> PSA_Solve(m.P)
    [] m.scenario = MS  -> MS_Solve(m.P)
    [] m.scenario = MSA -> MSA_Solve(m.P)
    [] m.scenario = MB  -> MB_Solve(m.P)
    [] m.scenario = MBA -> MB_Solve(m.P)
    [] m.scenario = CP  -> CP_Solve(m.P)
    [] m.scenario = CPA -> CPA_Solve(m.P)

\* --------------------------------------------------------------- rendering

\* if results.solver.termination_condition == TerminationCondition.optimal.
ReportShown(st) == st = "optimal"

\* The text of st.error in the else branch.
FailureMessage(pg) ==
  CASE pg = MB -> "Optimization failed. Try adjusting constraints."
    [] pg = CP -> "Optimization failed. Try adjusting data or constraints."
    [] OTHER   -> "Optimization failed."

FailureScreen_values(pg, st) ==
  [kind |-> "failure", message |-> FailureMessage(pg), objective |-> 0]

\* The else branch: st.error(...), whatever the termination condition was.
FailureScreen(pg, st) ==
  [kind |-> "failure", message |-> FailureMessage(pg)]

\* 1_Production_Scheduling.py: the objective, a table per machine of the jobs
\* with more than one unit (quantity, seconds used), and the unmet demand.
PS_Report(P, x) ==
  [kind |-> "report", message |-> "Optimal production schedule found!",
   objective |-> PS_objective_rule(P, x),
   tables |-> [m \in P.machines |->
                 {<<j, x.production[<<j, m>>],
                    x.production[<<j, m>>] * P.cycle_time[<<j, m>>]>> :
                      j \in {j \in P.jobs : x.production[<<j, m>>] > 1}}],
   unmet |-> {<<j, x.slack[j]>> : j \in {j \in P.jobs : x.slack[j] > 0}}]

\* production_scheduling_app.py: per machine, the jobs with more than one part.
PSA_Report(P, x) ==
  [kind |-> "report", message |-> "Optimal production schedule found!",
   tables |-> [m \in P.machines |->
                 {<<j, x.production[<<j, m>>]>> :
                      j \in {j \in P.jobs : x.production[<<j, m>>] > 1}}]]

\* The tasks listed for machine m in week w.
MS_tasks(x, m, w) ==
  (IF x[w].pm_minor[m] = 1 THEN <<"Minor PM">> ELSE <<>>) \o
  (IF x[w].pm_major[m] = 1 THEN <<"Major PM">> ELSE <<>>)

\* 2_Maintenance_Scheduling.py: per machine the weeks with tasks, and totals.
MS_Report(P, x) ==
  [kind |-> "report", message |-> "Maintenance schedule optimized!",
   schedule |-> [m \in P.machines |->
                   {<<w, MS_tasks(x, m, w)>> :
                      w \in {w \in MS_weeks(P) : MS_tasks(x, m, w) # <<>>}}],
   total_minor |-> SumOver(P.machines \X MS_weeks(P),
                     [mw \in P.machines \X MS_weeks(P) |-> x[mw[2]].pm_minor[mw[1]]]),
   total_major |-> SumOver(P.machines \X MS_weeks(P),
                     [mw \in P.machines \X MS_weeks(P) |-> x[mw[2]].pm_major[mw[1]]])]

\* maintenance_scheduling_app.py: one line per scheduled task.
MSA_Report(P, x) ==
  [kind |-> "report", message |-> "Maintenance schedule found!",
   lines |-> {<<mw[1], mw[2], "Minor PM">> : mw \in
                {mw \in P.machines \X MS_weeks(P) : x[mw[2]].pm_minor[mw[1]] = 1}}
             \cup
             {<<mw[1], mw[2], "Major PM">> : mw \in
                {mw \in P.machines \X MS_weeks(P) : x[mw[2]].pm_major[mw[1]] = 1}}]

\* 3_Material_Blending.py (the branch below the button, which only a script
\* that gets through its widgets shows): each share in tenths of a percent, the cost, the
\* strength and the density of the blend (each times FractionSteps).
MB_Report(P, x) ==
  [kind |-> "report", message |-> "Blend optimized!",
   shares |-> [m \in DOMAIN P.materials |-> (x[m] * 1000) \div FractionSteps],
   cost |-> MB_cost(P, x),
   strength |-> MB_blend_strength(P, x),
   density |-> MB_blend_density(P, x)]

\* material_blending_app.py: each share and the cost.
MBA_Report(P, x) ==
  [kind |-> "report", message |-> "Blend optimized!",
   shares |-> [m \in DOMAIN P.materials |-> (x[m] * 1000) \div FractionSteps],
   cost |-> MB_cost(P, x)]

\* 4_Capacity_Planning.py: the profit, per month the units sold and unmet of
\* each product, the machine time used, and the products with unmet demand
\* (an empty set stands for the line "All demand satisfied").
CP_Report(P, x) ==
  [kind |-> "report", message |-> "Optimal capacity plan found!",
   objective |-> CP_objective_rule(P, x),
   rows |-> [t \in months |-> {<<p, x[t].sales[p], x[t].slack[p]>> : p \in P.products}],
   utilization |-> [mt \in P.machines \X months |-> CP_time_used(P, x, mt[1], mt[2])],
   unmet |-> {<<p, SumOver(months, [t \in months |-> x[t].slack[p]])>> :
                p \in {p \in P.products :
                         SumOver(months, [t \in months |-> x[t].slack[p]]) > 0}}]

\* capacity_planning_app.py: per month the units sold of each product.
CPA_Report(P, x) ==
  [kind |-> "report", message |-> "Capacity plan optimized!",
   rows |-> [t \in months |-> {<<p, x[t].sales[p]>> : p \in P.products}]]

Report(m, x) ==
  CASE m.scenario = PS  -> PS_Report(m.P, x)
    [] m.scenario = PSA -> PSA_Report(m.P, x)
    [] m.scenario = MS  -> MS_Report(m.P, x)
    [] m.scenario = MSA -> MSA_Report(m.P, x)
    [] m.scenario = MB  -> MB_Report(m.P, x)
    [] m.scenario = MBA -> MBA_Report(m.P, x)
    [] m.scenario = CP  -> CP_Report(m.P, x)
    [] m.scenario = CPA -> CPA_Report(m.P, x)

\* The branch on the termination condition that ends every handler.
RenderOutcome(m, st, x) ==
  IF ReportShown(st) THEN Report(m, x) ELSE FailureScreen(m.scenario, st)

\* ----------------------------------------------------------- state machine

NextStep_retry(at, st) ==
  CASE at = "built"  -> "solved"
    [] at = "solved" -> IF st = "optimal" THEN "done" ELSE "built"

\* The handler is straight-line code: build, solve once, render, return.
NextStep(at, st) ==
  CASE at = "built"  -> "solved"
    [] at = "solved" -> "done"

\* The calls made in one run, counted up to MaxCalls.
Count(n) == IF n < MaxCalls THEN n + 1 ELSE MaxCalls

NoRun == [status |-> "none"]

Init ==
  /\ page = Home
  /\ inputs = NoInputs
  /\ pc = "idle"
  /\ model = NoModel
  /\ status = "none"
  /\ solution = NoValues
  /\ screen = Blank
  /\ nbuild = 0 /\ nsolve = 0 /\ nrender = 0
  /\ prev = NoRun

\* The script of page pg is re-executed from the top with the button not
\* pressed: its variables are new and nothing of an earlier run is shown.  A
\* script that raises in its widgets stops there and never shows its button.
Fresh(pg) ==
  /\ pc' = IF PageLoads(pg) THEN "idle" ELSE "raised"
  /\ model' = NoModel
  /\ status' = "none"
  /\ solution' = NoValues
  /\ screen' = IF PageLoads(pg) THEN Blank ELSE ExceptionScreen
  /\ nbuild' = 0 /\ nsolve' = 0 /\ nrender' = 0
  /\ prev' = NoRun

\* The user opens a page from the sidebar: its widgets show their defaults.
Navigate ==
  /\ pc \in {"idle", "done", "raised"}
  /\ \E pg \in (ScenarioPages \cup {Home}) \ {page} :
       /\ page' = pg
       /\ inputs' = Defaults(pg)
       /\ Fresh(pg)

\* The user changes widget values.
EditInputs ==
  /\ pc \in {"idle", "done", "raised"}
  /\ \E values \in Inputs(page) \ {inputs} : inputs' = values
  /\ page' = page
  /\ Fresh(page)

\* The user presses the Optimize button of a page that shows one: the
\* handler starts and builds the model from the widget values.
PressOptimize ==
  /\ pc \in {"idle", "done"}
  /\ page \in ScenarioPages
  /\ PageLoads(page)
  /\ model' = Build(page, inputs)
  /\ pc' = "built"
  /\ status' = "none"
  /\ solution' = NoValues
  /\ screen' = Blank
  /\ nbuild' = 1 /\ nsolve' = 0 /\ nrender' = 0
  /\ prev' = IF pc = "done"
             THEN [status |-> status, kind |-> screen.kind, message |-> screen.message]
             ELSE NoRun
  /\ UNCHANGED <<page, inputs>>

\* results = solver.solve(model, tee=False).
Solve ==
  /\ pc = "built"
  /\ \E r \in SolverOutcomes(model) :
       /\ status' = r.status
       /\ solution' = r.values
       /\ pc' = NextStep("built", r.status)
  /\ nsolve' = Count(nsolve)
  /\ UNCHANGED <<page, inputs, model, screen, nbuild, nrender, prev>>

\* The branch on results.solver.termination_condition, to the end of the script.
Render ==
  /\ pc = "solved"
  /\ screen' = RenderOutcome(model, status, solution)
  /\ nrender' = Count(nrender)
  /\ pc' = NextStep("solved", status)
  /\ UNCHANGED <<page, inputs, model, status, solution, nbuild, nsolve, prev>>

Next == Navigate \/ EditInputs \/ PressOptimize \/ Solve \/ Render

Spec == Init /\ [][Next]_vars

\* ------------------------------------------------------------------ claims

Finished == pc = "done"
Succeeded == pc = "done" /\ status = "optimal"
Failed == pc = "done" /\ status # "optimal"

\* C1: on every page a run reports results exactly when the termination
\* condition is optimal; after any other termination it ends with a failure
\* message that carries no variable value, objective value or table.
C1_ReportOnlyWhenOptimal ==
  Finished =>
    /\ screen.kind = "report" <=> status = "optimal"
    /\ status # "optimal" =>
         /\ screen.kind = "failure"
         /\ DOMAIN screen = {"kind", "message"}
         /\ solution = NoValues

C1_Witness ==
  Finished /\ page = MBA /\ status = "infeasible" /\ screen.kind = "failure"

\* The pages on which a run with the page's default data can end with the
\* termination condition st.
PagesEndingWith(st) ==
  {pg \in ScenarioPages :
     /\ PageLoads(pg)
     /\ \E o \in SolverOutcomes(Build(pg, Defaults(pg))) : o.status = st}

\* C2: the failure a run shows depends on the non-optimal termination
\* condition the solver reported: a run that ended infeasible never shows
\* the failure that a run ending unbounded shows, and a run that ended
\* unbounded never shows the failure of a run ending infeasible.
C2_DistinctFailures ==
  (Failed /\ status \in {"infeasible", "unbounded"}) =>
    \A st \in {"infeasible", "unbounded"} \ {status} :
      \A pg \in PagesEndingWith(st) :
        FailureScreen(pg, st) # screen

\* C3: a run builds one model, calls the solver once and renders one outcome;
\* a failed solve is not retried, and a run starts from a model built from
\* the current widget values with no status, solution or output of an
\* earlier run.
C3_OneBuildOneSolveOneRender ==
  /\ Finished => nbuild = 1 /\ nsolve = 1 /\ nrender = 1
  /\ pc \in {"built", "solved", "done"} => model = Build(page, inputs)
  /\ pc = "built" =>
       /\ nbuild = 1 /\ nsolve = 0 /\ nrender = 0
       /\ status = "none" /\ solution = NoValues /\ screen = Blank
  /\ pc = "solved" => nbuild = 1 /\ nsolve = 1 /\ nrender = 0 /\ screen = Blank
  /\ pc = "idle" => model = NoModel /\ solution = NoValues /\ screen = Blank
  /\ pc = "raised" =>
       /\ model = NoModel /\ solution = NoValues /\ screen = ExceptionScreen
       /\ nbuild = 0 /\ nsolve = 0 /\ nrender = 0

C3_Witness ==
  Failed /\ prev.status = "optimal" /\ nsolve = 1 /\ nrender = 1

\* The units of job j made on all machines, and the seconds machine m is busy
\* (production and changeovers), in the plan x over the jobs J and machines M.
UnitsMade(x, j, M) == SumOver(M, [m \in M |-> x.production[<<j, m>>]])
SecondsBusy(P, x, m) ==
  SumOver(P.jobs, [j \in P.jobs |-> x.production[<<j, m>>] * P.cycle_time[<<j, m>>]])
    + SumOver(P.jobs, [j \in P.jobs |-> x.assignment[<<j, m>>]]) * P.changeover_time * 60

\* C4: a production schedule reported as optimal covers every job's demand
\* with production plus slack (no slack on the page that declares none) and
\* keeps every machine's production and changeover time within its hours.
C4_OptimalScheduleMeetsDemandAndCapacity ==
  (Succeeded /\ page \in {PS, PSA}) =>
    /\ \A j \in inputs.jobs :
         UnitsMade(solution, j, inputs.machines)
           + (IF page = PS THEN solution.slack[j] ELSE 0) >= inputs.demand[j]
    /\ \A m \in inputs.machines :
         SecondsBusy(inputs, solution, m) <= inputs.available_hours[m] * 3600

C4_Witness ==
  /\ Succeeded /\ page = PS
  /\ \E j \in inputs.jobs :
       /\ solution.slack[j] > 0
       /\ UnitsMade(solution, j, inputs.machines) > 0
  /\ \E m \in inputs.machines :
       SecondsBusy(inputs, solution, m) = inputs.available_hours[m] * 3600

\* The monthly points of a capacity-planning model that satisfy its
\* constraints (month 1 stands for each month: the data do not depend on it).
CapacityFeasibleMonths(m) ==
  IF m.scenario = CP
  THEN {y \in CP_MonthPoints(m.P) :
          CP_FeasibleMonth(m.P, [CP_Zero(m.P) EXCEPT ![1] = y], 1)}
  ELSE {y \in CPA_MonthPoints(m.P) :
          CPA_FeasibleMonth(m.P, [CPA_Zero(m.P) EXCEPT ![1] = y], 1)}

\* C5: in both capacity-planning formulations no point that satisfies the
\* model's constraints sells more of a product in a month than the machines
\* produce of it in that month.
C5_SalesWithinProduction ==
  (pc = "built" /\ page \in {CP, CPA}) =>
    \A y \in CapacityFeasibleMonths(model) :
      \A p \in inputs.products :
        y.sales[p] <= SumOver(inputs.machines,
                        [m \in inputs.machines |-> y.production[<<p, m>>]])

\* The weighted sums of a blend x of the materials mats.
BlendTotal(x) == SumOver(DOMAIN x, x)
BlendStrength(mats, x) == SumOver(DOMAIN x, [m \in DOMAIN x |-> x[m] * mats[m].strength])
BlendDensity(mats, x) == SumOver(DOMAIN x, [m \in DOMAIN x |-> x[m] * mats[m].density])

\* The blends of the grid that meet both quality bounds.
GoodBlends(P) ==
  {x \in [DOMAIN P.materials -> 0..FractionSteps] :
     /\ BlendTotal(x) = FractionSteps
     /\ BlendStrength(P.materials, x) >= P.min_strength * FractionSteps
     /\ BlendDensity(P.materials, x) <= P.max_density * FractionSteps}

\* C6: a blend reported as optimal has every fraction between 0 and 1, the
\* fractions summing to 1, a strength of at least min_strength and a density
\* of at most max_density; and when no blend meets both quality bounds the
\* run ends in the failure outcome.
C6_OptimalBlendMeetsQuality ==
  (Finished /\ page \in {MB, MBA}) =>
    /\ status = "optimal" =>
         /\ \A m \in DOMAIN solution : 0 <= solution[m] /\ solution[m] <= FractionSteps
         /\ BlendTotal(solution) = FractionSteps
         /\ BlendStrength(inputs.materials, solution) >= inputs.min_strength * FractionSteps
         /\ BlendDensity(inputs.materials, solution) <= inputs.max_density * FractionSteps
    /\ GoodBlends(inputs) = {} => screen.kind = "failure"

C6_Witness ==
  /\ Succeeded /\ page = MBA
  /\ inputs.max_density = 100
  /\ BlendDensity(inputs.materials, solution) = inputs.max_density * FractionSteps
  /\ BlendStrength(inputs.materials, solution) = inputs.min_strength * FractionSteps
  /\ \E m \in DOMAIN solution : 0 < solution[m] /\ solution[m] < FractionSteps

\* The scenario of C7: the three materials with their costs (tenths of $/kg),
\* strengths and densities (hundredths), min_strength 30, max_density 1.1.
C7_Scenario ==
  /\ page = MBA
  /\ inputs.materials.Virgin = [cost |-> 25, strength |-> 35, density |-> 105]
  /\ inputs.materials.Regrind = [cost |-> 10, strength |-> 25, density |-> 95]
  /\ inputs.materials.Additive = [cost |-> 50, strength |-> 50, density |-> 120]
  /\ inputs.min_strength = 30
  /\ inputs.max_density = 110

C7_Cost(x) == x.Virgin * 25 + x.Regrind * 10 + x.Additive * 50

\* C7: in that scenario the blend reported as optimal uses Regrind and Virgin,
\* both in a positive share, and no Additive; no blend that meets the quality
\* bounds and contains Additive is cheaper.
C7_RegrindVirginMix ==
  (Succeeded /\ C7_Scenario) =>
    /\ solution.Regrind > 0 /\ solution.Virgin > 0 /\ solution.Additive = 0
    /\ \A x \in GoodBlends(inputs) : x.Additive > 0 => C7_Cost(x) >= C7_Cost(solution)

C7_Witness ==
  /\ Succeeded /\ C7_Scenario
  /\ screen.shares = [Virgin |-> 500, Regrind |-> 500, Additive |-> 0]

\* The scenario of C8 on the interactive page: one product with price 5.0,
\* material cost 2.0, a demand of 2000 a month and the page's default labor
\* (0.05 hours a unit, 500 hours a month), a cycle time of 30 s on the first
\* machine and 28 s on the second, 200 hours a machine.
C8_Scenario ==
  /\ page = CP
  /\ Cardinality(inputs.products) = 1
  /\ inputs.labor_hours_available = 500
  /\ \A m \in inputs.machines : inputs.machine_capacity[m] = 200
  /\ \A p \in inputs.products :
       /\ inputs.product_data[p].selling_price = 500
       /\ inputs.product_data[p].material_cost = 200
       /\ inputs.product_data[p].labor_hours = 5
       /\ inputs.product_data[p].max_demand_per_month = 2000
       /\ \A m \in inputs.machines :
            inputs.product_data[p].cycle_time[m] =
              IF m = "Arburg_Allrounder_320C" THEN 30 ELSE 28

\* The seconds machine m runs in month t of the plan x.
MachineSeconds(P, x, m, t) ==
  SumOver(P.products,
    [p \in P.products |-> x[t].production[<<p, m>>] * P.product_data[p].cycle_time[m]])

\* C8 as stated: in the optimal plan some machine's production time reaches
\* its capacity, at equality or within a twentieth of it, and the sales stay
\* below the demand cap.
C8_CapacityBindsFirst ==
  (Succeeded /\ C8_Scenario) =>
    /\ \E m \in inputs.machines : \E t \in months :
         MachineSeconds(inputs, solution, m, t) * 20
           >= inputs.machine_capacity[m] * 3600 * 19
    /\ \A p \in inputs.products : \E t \in months :
         solution[t].sales[p] < inputs.product_data[p].max_demand_per_month

\* C8 as amended: on the interactive page, in every optimal plan the demand
\* cap binds (2000 units are sold in every month, with no slack) and no
\* machine runs more than the 60000 seconds (about 16.7 of its 200 hours)
\* that the whole demand takes at 30 s a unit; the page with the built-in
\* data, which holds PartX, never reports an optimal plan.
C8_DemandBindsFirst ==
  /\ (Finished /\ page = CPA) => status # "optimal" /\ screen.kind = "failure"
  /\ (Succeeded /\ C8_Scenario) =>
      /\ \A p \in inputs.products : \A t \in months :
           /\ solution[t].sales[p] = 2000
           /\ solution[t].slack[p] = 0
      /\ \A m \in inputs.machines : \A t \in months :
           /\ MachineSeconds(inputs, solution, m, t) <= 2000 * 30
           /\ 2000 * 30 < inputs.machine_capacity[m] * 3600

C8_Witness ==
  /\ Succeeded /\ C8_Scenario
  /\ Cardinality(inputs.machines) = 2
  /\ \A m \in inputs.machines : MachineSeconds(inputs, solution, m, 1) > 0

\* C9: when the optimal plan sells less of a product in a month than its
\* monthly demand, the plan's slack for that product and month is positive
\* and the page lists the product under its unmet demand.
C9_UnmetDemandReported ==
  (Succeeded /\ page = CP) =>
    \A p \in inputs.products : \A t \in months :
      solution[t].sales[p] < inputs.product_data[p].max_demand_per_month =>
        /\ solution[t].slack[p] > 0
        /\ \E row \in screen.unmet : row[1] = p

\* Points in which one job makes one or two units on one machine, far fewer
\* than its demand, with the assignment of that pair at 0 or at 1.
SmallProductionPoints(P) ==
  {[production |-> [k \in P.jobs \X P.machines |-> IF k = jm THEN q ELSE 0],
    assignment |-> [k \in P.jobs \X P.machines |-> IF k = jm THEN a ELSE 0],
    slack      |-> [j \in P.jobs |-> P.demand[j]]] :
     jm \in P.jobs \X P.machines, q \in {1, 2}, a \in {0, 1}}

\* C10 as stated: the production-scheduling model admits a point that
\* satisfies the linking constraints with a positive production, however
\* small, and a zero assignment for some job and machine.
C10_LinkAdmitsUnassignedProduction ==
  (pc = "built" /\ page = PS /\ \E j \in inputs.jobs : inputs.demand[j] > 2) =>
    \E x \in PS_Points(model.P) \cup SmallProductionPoints(model.P) :
      /\ \A j \in inputs.jobs : \A m \in inputs.machines :
           PS_assignment_link_rule(model.P, x, j, m)
      /\ \E jm \in inputs.jobs \X inputs.machines :
           x.production[jm] > 0 /\ x.assignment[jm] = 0

\* C10 as amended: the linking constraint with a binary assignment prevents
\* production when the assignment is 0, and so forces the assignment to 1
\* wherever production is positive, however small: no point that satisfies
\* the linking constraints, and no schedule reported as optimal, has a
\* positive production with a zero assignment.
C10_LinkForcesAssignment ==
  /\ (pc = "built" /\ page = PS) =>
       \A x \in PS_Points(model.P) \cup SmallProductionPoints(model.P) :
         (\A j \in inputs.jobs : \A m \in inputs.machines :
            PS_assignment_link_rule(model.P, x, j, m)) =>
           \A jm \in inputs.jobs \X inputs.machines :
             x.production[jm] > 0 => x.assignment[jm] = 1
  /\ (Succeeded /\ page = PS) =>
       \A jm \in inputs.jobs \X inputs.machines :
         solution.production[jm] > 0 => solution.assignment[jm] = 1

C10_Witness ==
  /\ Succeeded /\ page = PS
  /\ \E jm \in inputs.jobs \X inputs.machines :
       solution.production[jm] > 0 /\ solution.assignment[jm] = 1
  /\ \E jm \in inputs.jobs \X inputs.machines :
       solution.production[jm] = 0 /\ solution.assignment[jm] = 0

\* The schedule whose only tasks are a minor and a major PM of machine m in
\* week w.
BothInWeek(P, m, w) ==
  [MS_Zero(P) EXCEPT ![w].pm_minor[m] = 1, ![w].pm_major[m] = 1]

\* Inputs for which both tasks pay in the last week: 8 weeks, a failure
\* penalty of 6000 and 40 labor hours in every week.
C11_Scenario ==
  /\ page = MS
  /\ inputs.num_weeks = 8
  /\ inputs.failure_penalty = 6000
  /\ \A w \in 1..8 : inputs.labor_available[w] = 40

\* C11: on the failure-risk page a minor and a major PM of one machine in
\* one week are feasible together whenever the week's labor hours cover both
\* durations; the failure-risk term of that machine and week is then
\* -failure_penalty * (w/num_weeks), which is negative (here times
\* num_weeks); and with 8 weeks, a penalty of 6000 and 40 labor hours every
\* schedule reported as optimal has both tasks for every machine in week 8,
\* which the page lists as 'Minor PM, Major PM'.
C11_BothTasksSameWeek ==
  /\ (pc = "built" /\ page = MS) =>
       \A m \in inputs.machines : \A w \in 1..inputs.num_weeks :
         inputs.task_duration.PM_Minor + inputs.task_duration.PM_Major
             <= inputs.labor_available[w] =>
           /\ MS_Feasible(model.P, BothInWeek(model.P, m, w))
           /\ MS_failure_term(model.P, BothInWeek(model.P, m, w), m, w)
                = 0 - inputs.failure_penalty * w
           /\ MS_failure_term(model.P, BothInWeek(model.P, m, w), m, w) < 0
  /\ (Succeeded /\ C11_Scenario) =>
       \A m \in inputs.machines :
         /\ solution[8].pm_minor[m] = 1 /\ solution[8].pm_major[m] = 1
         /\ <<8, <<"Minor PM", "Major PM">> >> \in screen.schedule[m]

C11_Witness ==
  /\ Succeeded /\ C11_Scenario
  /\ Cardinality(inputs.machines) = 2
  /\ \A m \in inputs.machines :
       /\ <<8, <<"Minor PM", "Major PM">> >> \in screen.schedule[m]
       /\ <<5, <<"Minor PM">> >> \in screen.schedule[m]

\* C12: on the page with the built-in production data a run that the solver
\* completes ends in the success outcome, with a schedule that makes the
\* full demand of every job within every machine's available hours.
C12_BuiltInScheduleFound ==
  (Finished /\ page = PSA /\ status # "other") =>
    /\ status = "optimal"
    /\ screen.kind = "report"
    /\ \A j \in inputs.jobs : UnitsMade(solution, j, inputs.machines) >= inputs.demand[j]
    /\ \A m \in inputs.machines :
         SecondsBusy(inputs, solution, m) <= inputs.available_hours[m] * 3600

\* The point the claim names: nothing produced, nothing assigned, the whole
\* demand of every job left as slack.
AllSlack(P) ==
  [production |-> [jm \in P.jobs \X P.machines |-> 0],
   assignment |-> [jm \in P.jobs \X P.machines |-> 0],
   slack      |-> [j \in P.jobs |-> P.demand[j]]]

\* C13: on the interactive production page, for every admitted input, the
\* point with no production, no assignment and slack[j] = demand[j]
\* satisfies every constraint, the objective is at least 0 at every point
\* and along every direction in which the variables can grow, and no run
\* ends with the status infeasible or unbounded.
C13_AlwaysFeasibleAndBounded ==
  /\ (pc = "built" /\ page = PS) =>
       /\ PS_Feasible(model.P, AllSlack(model.P))
       /\ \A x \in PS_Points(model.P) \cup SmallProductionPoints(model.P) :
            PS_objective_rule(model.P, x) >= 0
       /\ \A d \in PS_Rays(model.P) : PS_objective_rule(model.P, d) >= 0
  /\ (Finished /\ page = PS) =>
       /\ status \notin {"infeasible", "unbounded"}
       /\ screen.kind = "failure" => status = "other"

C13_Witness ==
  /\ Succeeded /\ page = PS
  /\ \A m \in inputs.machines : inputs.available_hours[m] = 2
  /\ \A j \in inputs.jobs : inputs.demand[j] = 200
  /\ \E j \in inputs.jobs : solution.slack[j] = inputs.demand[j]

\* The direction in which only the sales of product p in month 1 grow.
SalesOnly(P, p) ==
  [CPA_Zero(P) EXCEPT ![1].sales[p] = 1]

\* C14: on the page with the built-in capacity data every product's sales
\* can grow without limit inside the constraints and each unit sold adds
\* a positive amount to the maximized objective, so the problem is
\* unbounded: no run of the page ends in the success outcome, every run
\* ends in 'Optimization failed.'.
C14_BuiltInPlanUnbounded ==
  /\ (pc = "built" /\ page = CPA) =>
       /\ CPA_Feasible(model.P, CPA_Zero(model.P))
       /\ \A p \in inputs.products :
            /\ SalesOnly(model.P, p) \in CPA_Rays(model.P)
            /\ CPA_objective_rule(model.P, SalesOnly(model.P, p)) > 0
  /\ (Finished /\ page = CPA) =>
       /\ status \in {"unbounded", "other"}
       /\ screen = [kind |-> "failure", message |-> "Optimization failed."]

C14_Witness ==
  Finished /\ page = CPA /\ status = "unbounded" /\ screen.kind = "failure"

\* The schedule whose only task is one PM of machine m in week w.
OneTask(P, m, w, major) ==
  IF major THEN [MS_Zero(P) EXCEPT ![w].pm_major[m] = 1]
  ELSE [MS_Zero(P) EXCEPT ![w].pm_minor[m] = 1]

\* C15: on the maintenance page without the failure-risk term every task
\* adds a positive amount to the minimized objective and the schedule
\* without tasks satisfies the labor constraints, so every schedule
\* reported as optimal has pm_minor = pm_major = 0 for every machine and
\* week; a run that the solver completes reports success and lists no task.
C15_NoMaintenanceIsOptimal ==
  /\ (pc = "built" /\ page = MSA) =>
       /\ MSA_Feasible(model.P, MS_Zero(model.P))
       /\ MSA_objective_rule(model.P, MS_Zero(model.P)) = 0
       /\ \A m \in inputs.machines : \A w \in MS_weeks(inputs) : \A major \in BOOLEAN :
            MSA_objective_rule(model.P, OneTask(model.P, m, w, major)) > 0
  /\ (Finished /\ page = MSA /\ status # "other") =>
       /\ status = "optimal"
       /\ solution = MS_Zero(inputs)
       /\ screen.kind = "report"
       /\ screen.lines = {}

C15_Witness ==
  /\ Succeeded /\ page = MSA
  /\ screen.lines = {}
  /\ \A m \in inputs.machines : \A w \in 1..8 :
       solution[w].pm_minor[m] = 0 /\ solution[w].pm_major[m] = 0

====
